---------------------------- MODULE Spec2Model ----------------------------
(***************************************************************************)
(* Model of api/screener.py: the Flask POST handler, get_stock_data,       *)
(* calculate_metrics and rank_stocks.                                      *)
(*                                                                         *)
(* Column names are written in ASCII:                                      *)
(*   "ROIC" = 'ROIC', "RD_Sales" = '研發/銷售',                            *)
(*   "NetDebt_EBITDA" = '淨債務/EBITDA', "EV_FCF" = 'EV/FCF',              *)
(*   "CAGR3Y" = '營收CAGR(3Y)', code = '代碼', score = '綜合分',           *)
(*   rank[f] = the column f'{f}_排名'.                                     *)
(* The company-name column ('公司名稱') takes no part in any computation   *)
(* and is left out of the records.                                         *)
(***************************************************************************)
EXTENDS Integers, Sequences, FiniteSets, TLC

\* ------------------------------------------------------------------ bounds
\* Longest 'tickers' list a request carries.
MaxTickers == 2
\* Most rows of a DataFrame handed to rank_stocks in SpecRank.
MaxRows == 3
\* Most line items of one provider bundle that deviate from the base data.
MaxFaults == 1

\* ------------------------------------------------------------------ values
(***************************************************************************)
(* A value is a record [t, n, d].  t = "num": the exact rational n/d       *)
(* (d > 0, lowest terms); "nan": np.nan; "inf": +/-infinity (sign n);      *)
(* "none": Python None; "str": a non-numeric object; any of ExcTypes: the  *)
(* exception raised by the statement that should have produced a value.    *)
(***************************************************************************)
ExcTypes == {"KeyError", "IndexError", "TypeError", "ZeroDivisionError"}

Abs(x) == IF x < 0 THEN -x ELSE x

Sign(x) == IF x < 0 THEN -1 ELSE IF x > 0 THEN 1 ELSE 0

RECURSIVE GCD(_, _)
GCD(a, b) == IF b = 0 THEN a ELSE GCD(b, a % b)

Rat(n, d) ==
    LET g == GCD(Abs(n), Abs(d))
        s == IF d < 0 THEN -1 ELSE 1
    IN  [t |-> "num", n |-> (s * n) \div g, d |-> (s * d) \div g]

Num(n) == [t |-> "num", n |-> n, d |-> 1]
NaN == [t |-> "nan", n |-> 0, d |-> 1]
Inf(s) == [t |-> "inf", n |-> s, d |-> 1]
None == [t |-> "none", n |-> 0, d |-> 1]
Str == [t |-> "str", n |-> 0, d |-> 1]
Exc(e) == [t |-> e, n |-> 0, d |-> 1]

IsExc(v) == v.t \in ExcTypes
IsNumeric(v) == v.t \in {"num", "nan", "inf"}
IsNaN(v) == v.t = "nan"

\* The exception an arithmetic operator or an ordering comparison raises on
\* its operands, or None when it raises nothing.
OperandError(a, b) ==
    IF IsExc(a) THEN a
    ELSE IF IsExc(b) THEN b
    ELSE IF ~IsNumeric(a) \/ ~IsNumeric(b) THEN Exc("TypeError")
    ELSE None

Neg(a) == IF a.t \in {"num", "inf"} THEN [a EXCEPT !.n = -a.n] ELSE a

Add(a, b) ==
    IF OperandError(a, b) # None THEN OperandError(a, b)
    ELSE IF IsNaN(a) \/ IsNaN(b) THEN NaN
    ELSE IF a.t = "inf" /\ b.t = "inf" THEN (IF a.n = b.n THEN a ELSE NaN)
    ELSE IF a.t = "inf" THEN a
    ELSE IF b.t = "inf" THEN b
    ELSE Rat(a.n * b.d + b.n * a.d, a.d * b.d)

Sub(a, b) == Add(a, Neg(b))

Mul(a, b) ==
    IF OperandError(a, b) # None THEN OperandError(a, b)
    ELSE IF IsNaN(a) \/ IsNaN(b) THEN NaN
    ELSE IF a.t = "inf" \/ b.t = "inf"
         THEN (IF a.n = 0 \/ b.n = 0 THEN NaN ELSE Inf(Sign(a.n) * Sign(b.n)))
    ELSE Rat(a.n * b.n, a.d * b.d)

\* Floating-point division (the statement cells are numpy floats): x/0 is
\* +/-inf or nan.  Every division of the program is guarded by a test of its
\* divisor, so the zero case is never reached.
Div(a, b) ==
    IF OperandError(a, b) # None THEN OperandError(a, b)
    ELSE IF IsNaN(a) \/ IsNaN(b) THEN NaN
    ELSE IF a.t = "inf" /\ b.t = "inf" THEN NaN
    ELSE IF a.t = "inf" THEN Inf(IF b.n < 0 THEN -a.n ELSE a.n)
    ELSE IF b.t = "inf" THEN Num(0)
    ELSE IF b.n = 0 THEN (IF a.n = 0 THEN NaN ELSE Inf(Sign(a.n)))
    ELSE Rat(a.n * b.d, a.d * b.n)

\* a < b on numeric, non-NaN values.
Less(a, b) ==
    IF a.t = "inf" THEN a.n < 0 /\ ~(b.t = "inf" /\ b.n < 0)
    ELSE IF b.t = "inf" THEN b.n > 0
    ELSE a.n * b.d < b.n * a.d

\* v > 0: an ordering comparison, TypeError on None or a string, False on nan.
GtZeroError(v) == OperandError(v, Num(0))
GtZero(v) == v.t \in {"num", "inf"} /\ v.n > 0

\* v != 0 never raises: None != 0 and nan != 0 are True.
NeZero(v) == ~(v.t = "num" /\ v.n = 0)

\* The largest cube root the bounded inputs need.
MaxRoot == 3

\* x ** (1/3) on floats: nan for a negative base, the real cube root else.
\* Inputs are drawn so that the quotient is a perfect cube.
Pow13(v) ==
    IF OperandError(v, Num(0)) # None THEN OperandError(v, Num(0))
    ELSE IF IsNaN(v) THEN NaN
    ELSE IF v.t = "inf" THEN Inf(1)
    ELSE IF v.n < 0 THEN NaN
    ELSE Rat(CHOOSE k \in 0..MaxRoot : k * k * k = v.n,
             CHOOSE k \in 1..MaxRoot : k * k * k = v.d)

\* The value of a block of statements: the first exception raised, in
\* statement order, or the value of the last statement.
FirstExc(stmts) ==
    IF \E i \in 1..Len(stmts) : IsExc(stmts[i])
    THEN stmts[CHOOSE i \in 1..Len(stmts) :
                 /\ IsExc(stmts[i])
                 /\ \A j \in 1..(i - 1) : ~IsExc(stmts[j])]
    ELSE stmts[Len(stmts)]

\* try: ... except (caught): x = np.nan
Except(v, caught) == IF IsExc(v) /\ v.t \in caught THEN NaN ELSE v


\* ------------------------------------------------------- provider data
(***************************************************************************)
(* A statement table (DataFrame) is a function from line-item names to the *)
(* row's cells, most recent period first; info is a function from keys to  *)
(* values.  A table with no rows is empty.                                 *)
(***************************************************************************)
Symbols == {"AAA", "BBB"}

Row(v) == <<Num(v), Num(v), Num(v), Num(v)>>

EmptyTable == <<>>

\* What the provider holds for each symbol when nothing is wrong with it.
BaseInfo(sym) ==
    IF sym = "AAA"
    THEN ("netDebt" :> Num(2) @@ "ebitda" :> Num(4) @@ "enterpriseValue" :> Num(12))
    ELSE ("enterpriseValue" :> Num(10))

BaseFinancials(sym) ==
    IF sym = "AAA"
    THEN ("Operating Income" :> Row(6) @@ "Tax Provision" :> Row(2)
          @@ "Pretax Income" :> Row(4) @@ "Research And Development" :> Row(2)
          @@ "Total Revenue" :> <<Num(8), Num(4), Num(2), Num(1)>>)
    ELSE ("Operating Income" :> Row(4) @@ "Tax Provision" :> Row(1)
          @@ "Pretax Income" :> Row(-2) @@ "Research And Development" :> Row(1)
          @@ "Total Revenue" :> <<Num(1), Num(2), Num(4), Num(8)>>)

BaseBalanceSheet(sym) ==
    IF sym = "AAA"
    THEN ("Total Debt" :> Row(5) @@ "Total Equity Gross Minority Interest" :> Row(4)
          @@ "Cash And Cash Equivalents" :> Row(3))
    ELSE ("Total Debt" :> Row(2) @@ "Total Equity Gross Minority Interest" :> Row(3)
          @@ "Cash And Cash Equivalents" :> Row(1))

BaseCashflow(sym) ==
    IF sym = "AAA"
    THEN ("Depreciation And Amortization" :> Row(2) @@ "Free Cash Flow" :> Row(3))
    ELSE ("Depreciation And Amortization" :> Row(4) @@ "Free Cash Flow" :> Row(-2))

\* One answer of the provider to the queries get_stock_data makes.
BaseAnswer(sym) ==
    [raises |-> FALSE, history_empty |-> FALSE, info |-> BaseInfo(sym),
     financials |-> BaseFinancials(sym), balance_sheet |-> BaseBalanceSheet(sym),
     cashflow |-> BaseCashflow(sym)]

InfoKeys == {"netDebt", "ebitda", "enterpriseValue"}

LineItems ==
    {<<"financials", r>> : r \in DOMAIN BaseFinancials("AAA")}
    \cup {<<"balance_sheet", r>> : r \in DOMAIN BaseBalanceSheet("AAA")}
    \cup {<<"cashflow", r>> : r \in DOMAIN BaseCashflow("AAA")}
    \cup {<<"info", k>> : k \in InfoKeys}

\* The ways one line item of an answer deviates: the item is absent, or it
\* holds None, a non-numeric object, zero or nan; or the income statement
\* has one reporting period fewer.
FaultKinds == {"missing", "none", "str", "zero", "nan"}

Faults ==
    {[item |-> it, kind |-> k] : it \in LineItems, k \in FaultKinds}
    \cup {[item |-> <<"financials", "*">>, kind |-> "short"]}

FaultValue(kind) ==
    CASE kind = "none" -> None
      [] kind = "str" -> Str
      [] kind = "zero" -> Num(0)
      [] kind = "nan" -> NaN

Without(f, key) == [k \in (DOMAIN f) \ {key} |-> f[k]]

FaultTable(tbl, row, kind, isInfo) ==
    IF kind = "missing" THEN Without(tbl, row)
    ELSE IF isInfo THEN (row :> FaultValue(kind)) @@ tbl
    ELSE IF row \in DOMAIN tbl
    THEN [tbl EXCEPT ![row] = [i \in 1..Len(tbl[row]) |-> FaultValue(kind)]]
    ELSE tbl

ApplyFault(ans, f) ==
    IF f.kind = "short"
    THEN [ans EXCEPT !.financials =
             [r \in DOMAIN ans.financials |->
                 SubSeq(ans.financials[r], 1, Len(ans.financials[r]) - 1)]]
    ELSE [ans EXCEPT ![f.item[1]] =
             FaultTable(ans[f.item[1]], f.item[2], f.kind, f.item[1] = "info")]

RECURSIVE ApplyFaults(_, _)
ApplyFaults(ans, fs) ==
    IF fs = {} THEN ans
    ELSE LET f == CHOOSE x \in fs : TRUE
         IN  ApplyFaults(ApplyFault(ans, f), fs \ {f})

\* The sets of at most k faults, on distinct line items.
RECURSIVE FaultSetsUpTo(_)
FaultSetsUpTo(k) ==
    IF k = 0 THEN {{}}
    ELSE LET less == FaultSetsUpTo(k - 1)
         IN  less \cup UNION {{fs \cup {f} :
                                   f \in {x \in Faults : \A g \in fs : g.item # x.item}} :
                               fs \in less}

FaultSets == FaultSetsUpTo(MaxFaults)

\* ------------------------------------------------------- get_stock_data
\* None is the empty sequence, a returned value v the sequence <<v>>.
get_stock_data(ticker_symbol, ans) ==
    IF ans.raises THEN <<>>
    ELSE IF ans.history_empty THEN <<>>
    ELSE IF \/ DOMAIN ans.financials = {}
            \/ DOMAIN ans.balance_sheet = {}
            \/ DOMAIN ans.cashflow = {}
    THEN <<>>
    ELSE <<[ticker |-> ticker_symbol, info |-> ans.info,
            financials |-> ans.financials, balance_sheet |-> ans.balance_sheet,
            cashflow |-> ans.cashflow]>>

\* ----------------------------------------------------- calculate_metrics
Factors == {"ROIC", "RD_Sales", "NetDebt_EBITDA", "EV_FCF", "CAGR3Y"}

\* table.loc[row].iloc[k], k counted from 0
Loc(table, row, k) ==
    IF row \notin DOMAIN table THEN Exc("KeyError")
    ELSE IF k + 1 > Len(table[row]) THEN Exc("IndexError")
    ELSE table[row][k + 1]

\* info.get(key)
InfoGet(info, key) == IF key \in DOMAIN info THEN info[key] ELSE None

\* The body of each factor's try block: its value, or the exception it raises.
RoicBody(data) ==
    LET op_income == Loc(data.financials, "Operating Income", 0)
        tax_provision == Loc(data.financials, "Tax Provision", 0)
        income_before_tax == Loc(data.financials, "Pretax Income", 0)
        tax_rate == IF GtZeroError(income_before_tax) # None
                    THEN GtZeroError(income_before_tax)
                    ELSE IF GtZero(income_before_tax)
                    THEN Div(tax_provision, income_before_tax)
                    ELSE Num(0)
        nopat == Mul(op_income, Sub(Num(1), tax_rate))
        total_debt == Loc(data.balance_sheet, "Total Debt", 0)
        total_equity == Loc(data.balance_sheet, "Total Equity Gross Minority Interest", 0)
        cash_and_equivalents == Loc(data.balance_sheet, "Cash And Cash Equivalents", 0)
        invested_capital == Sub(Add(total_debt, total_equity), cash_and_equivalents)
        roic == IF NeZero(invested_capital) THEN Div(nopat, invested_capital) ELSE NaN
    IN  FirstExc(<<op_income, tax_provision, income_before_tax, tax_rate, nopat,
                   total_debt, total_equity, cash_and_equivalents,
                   invested_capital, roic>>)

RdToSalesBody(data) ==
    LET rd_expense == Loc(data.financials, "Research And Development", 0)
        revenue == Loc(data.financials, "Total Revenue", 0)
        rd_to_sales == IF GtZeroError(revenue) # None THEN GtZeroError(revenue)
                       ELSE IF GtZero(revenue) THEN Div(rd_expense, revenue)
                       ELSE NaN
    IN  FirstExc(<<rd_expense, revenue, rd_to_sales>>)

NetDebtToEbitdaBody(data) ==
    LET given_debt == InfoGet(data.info, "netDebt")
        total_debt == Loc(data.balance_sheet, "Total Debt", 0)
        cash_and_equivalents == Loc(data.balance_sheet, "Cash And Cash Equivalents", 0)
        net_debt == IF given_debt = None
                    THEN FirstExc(<<total_debt, cash_and_equivalents,
                                    Sub(total_debt, cash_and_equivalents)>>)
                    ELSE given_debt
        given_ebitda == InfoGet(data.info, "ebitda")
        op_income == Loc(data.financials, "Operating Income", 0)
        da == Loc(data.cashflow, "Depreciation And Amortization", 0)
        ebitda == IF given_ebitda = None
                  THEN FirstExc(<<op_income, da, Add(op_income, da)>>)
                  ELSE given_ebitda
        ratio == IF NeZero(ebitda) THEN Div(net_debt, ebitda) ELSE NaN
    IN  FirstExc(<<net_debt, ebitda, ratio>>)

EvToFcfBody(data) ==
    LET ev == InfoGet(data.info, "enterpriseValue")
        fcf == Loc(data.cashflow, "Free Cash Flow", 0)
        ev_to_fcf == IF NeZero(fcf) THEN Div(ev, fcf) ELSE NaN
    IN  FirstExc(<<fcf, ev_to_fcf>>)

CagrBody(data) ==
    IF /\ "Total Revenue" \in DOMAIN data.financials
       /\ Len(data.financials["Total Revenue"]) >= 4
    THEN LET revenue_t0 == Loc(data.financials, "Total Revenue", 0)
             revenue_t3 == Loc(data.financials, "Total Revenue", 3)
             cagr == IF GtZeroError(revenue_t3) # None THEN GtZeroError(revenue_t3)
                     ELSE IF GtZero(revenue_t3)
                     THEN Sub(Pow13(Div(revenue_t0, revenue_t3)), Num(1))
                     ELSE NaN
         IN  FirstExc(<<revenue_t0, revenue_t3, cagr>>)
    ELSE NaN

\* The exceptions each factor's except clause names.
CaughtNarrow == {"KeyError", "IndexError", "ZeroDivisionError"}
CaughtWide == {"KeyError", "IndexError", "TypeError", "ZeroDivisionError"}

FactorBody(f, data) ==
    CASE f = "ROIC" -> RoicBody(data)
      [] f = "RD_Sales" -> RdToSalesBody(data)
      [] f = "NetDebt_EBITDA" -> NetDebtToEbitdaBody(data)
      [] f = "EV_FCF" -> EvToFcfBody(data)
      [] f = "CAGR3Y" -> CagrBody(data)

Caught(f) == IF f \in {"NetDebt_EBITDA", "EV_FCF"} THEN CaughtWide ELSE CaughtNarrow

\* Each factor after its own try/except: a value, nan, or the exception the
\* except clause lets through.
FactorResult(f, data) == Except(FactorBody(f, data), Caught(f))

\* An exception that leaves a factor's block reaches the outer
\* `except Exception`, which returns None.
calculate_metrics(data) ==
    IF \E f \in Factors : IsExc(FactorResult(f, data))
    THEN <<>>
    ELSE <<[code |-> data.ticker, m |-> [f \in Factors |-> FactorResult(f, data)]]>>

\* ------------------------------------------------------------ rank_stocks
(***************************************************************************)
(* A DataFrame is a sequence of rows [index, code, m], m the row's cells   *)
(* by column; rank_stocks adds rank (one cell per weighted factor) and     *)
(* score.                                                                  *)
(***************************************************************************)
\* A DataFrame built from no records has no columns.
Columns(df) == IF df = <<>> THEN {} ELSE DOMAIN df[1].m

Column(df, factor) == [i \in 1..Len(df) |-> df[i].m[factor]]

\* Series.rank(method='average', ascending=..., na_option='top'): a changed
\* na_option.
RankNaTop(col, i, ascending) ==
    LET defined == {j \in 1..Len(col) : ~IsNaN(col[j])}
        nans == {j \in 1..Len(col) : IsNaN(col[j])}
        before == {j \in defined : IF ascending THEN Less(col[j], col[i])
                                                ELSE Less(col[i], col[j])}
        equal == {j \in defined : col[j] = col[i]}
    IN  IF IsNaN(col[i])
        THEN Rat(Cardinality(nans) + 1, 2)
        ELSE Rat(2 * Cardinality(nans) + 2 * Cardinality(before) + Cardinality(equal) + 1, 2)

\* Series.rank that ignores `ascending`.
RankAscendingOnly(col, i, ascending) ==
    LET defined == {j \in 1..Len(col) : ~IsNaN(col[j])}
        nans == {j \in 1..Len(col) : IsNaN(col[j])}
        before == {j \in defined : Less(col[j], col[i])}
        equal == {j \in defined : col[j] = col[i]}
    IN  IF IsNaN(col[i])
        THEN Rat(2 * Cardinality(defined) + Cardinality(nans) + 1, 2)
        ELSE Rat(2 * Cardinality(before) + Cardinality(equal) + 1, 2)

\* Series.rank(ascending=..., na_option='bottom') with the default
\* method='average': the rank of cell i is the mean of the 1-based positions
\* its group of equal values takes in the sorted order; the nan cells form
\* one group after all the others, whatever the direction.
Rank(col, i, ascending) ==
    LET defined == {j \in 1..Len(col) : ~IsNaN(col[j])}
        nans == {j \in 1..Len(col) : IsNaN(col[j])}
        before == {j \in defined : IF ascending THEN Less(col[j], col[i])
                                                ELSE Less(col[i], col[j])}
        equal == {j \in defined : col[j] = col[i]}
    IN  IF IsNaN(col[i])
        THEN Rat(2 * Cardinality(defined) + Cardinality(nans) + 1, 2)
        ELSE Rat(2 * Cardinality(before) + Cardinality(equal) + 1, 2)

\* The sum of the ranks, the weights dropped.
RECURSIVE UnweightedScore(_, _, _)
UnweightedScore(rank, weights, todo) ==
    IF todo = {} THEN Num(0)
    ELSE LET f == CHOOSE x \in todo : TRUE
         IN  Add(UnweightedScore(rank, weights, todo \ {f}), rank[f])

\* ranked_df['綜合分'] = 0, then += rank * weight for each item of weights.
RECURSIVE CompositeScore(_, _, _)
CompositeScore(rank, weights, todo) ==
    IF todo = {} THEN Num(0)
    ELSE LET f == CHOOSE x \in todo : TRUE
         IN  Add(CompositeScore(rank, weights, todo \ {f}),
                 Mul(rank[f], Num(weights[f].weight)))

\* The rows left in the order they came.
Unsorted(rows) == rows

\* sort_values(by='綜合分'): ascending; the sort numpy uses on so few rows is
\* an insertion sort, which keeps rows of equal score in their order.
RECURSIVE sort_values(_)
sort_values(rows) ==
    IF rows = <<>> THEN <<>>
    ELSE LET n == Len(rows)
             head == sort_values(SubSeq(rows, 1, n - 1))
             r == rows[n]
             k == Cardinality({j \in 1..(n - 1) : ~Less(r.score, head[j].score)})
         IN  SubSeq(head, 1, k) \o <<r>> \o SubSeq(head, k + 1, n - 1)

\* reset_index(drop=True), then index + 1
Reindex(rows) == [i \in 1..Len(rows) |-> [rows[i] EXCEPT !.index = (i - 1) + 1]]

\* The exception rank_stocks raises on these arguments ("" for none): a
\* factor that is no column or an item without 'higher_is_better' at the
\* rank loop, an item without 'weight' at the score loop.
RankRaises(df, weights) ==
    IF \E f \in DOMAIN weights :
          \/ f \notin Columns(df)
          \/ "higher_is_better" \notin DOMAIN weights[f]
          \/ "weight" \notin DOMAIN weights[f]
    THEN "KeyError"
    ELSE ""

rank_stocks(df, weights) ==
    IF RankRaises(df, weights) # ""
    THEN [exc |-> RankRaises(df, weights), df |-> <<>>]
    ELSE LET ranked_df ==
                 [i \in 1..Len(df) |->
                     LET rank == [f \in DOMAIN weights |->
                                     Rank(Column(df, f), i,
                                          ~weights[f].higher_is_better)]
                     IN  [index |-> df[i].index, code |-> df[i].code, m |-> df[i].m,
                          rank |-> rank,
                          score |-> CompositeScore(rank, weights, DOMAIN weights)]]
         IN  [exc |-> "", df |-> Reindex(sort_values(ranked_df))]

\* The items a 'weights' mapping may hold for one factor: well formed, or
\* lacking one of the two fields.
WeightValues == {1, 2}

GoodItems == {[weight |-> w, higher_is_better |-> h] : w \in WeightValues, h \in BOOLEAN}

BadItems == {[weight |-> 1], [higher_is_better |-> TRUE]}

\* The non-empty mappings from some of `names` to `items`.
Mappings(names, items) ==
    UNION {[S -> items] : S \in (SUBSET names) \ {{}}}

\* --------------------------------------------------------------- state
VARIABLES
    pc,           \* where the handler is: "start", "loop", "finish", "done"
    request,      \* the request body
    pos,          \* how many tickers the loop has been through
    all_metrics,  \* the records collected so far
    attempts,     \* one entry per get_stock_data call, in order: the ticker
                  \* and whether each of the two steps returned a value
    rank_args,    \* the DataFrames rank_stocks was called with, in order
    response,     \* the responses sent, in order
    r_pc, r_df, r_weights, r_out,   \* rank_stocks on its own
    c_pc, c_data, c_out             \* calculate_metrics on its own

handlerVars == <<pc, request, pos, all_metrics, attempts, rank_args, response>>
rankVars == <<r_pc, r_df, r_weights, r_out>>
calcVars == <<c_pc, c_data, c_out>>
vars == <<handlerVars, rankVars, calcVars>>

NoRequest == [kind |-> "none"]

HandlerIdle ==
    /\ pc = "idle" /\ request = NoRequest /\ pos = 0 /\ all_metrics = <<>>
    /\ attempts = <<>> /\ rank_args = <<>> /\ response = <<>>

RankIdle == r_pc = "idle" /\ r_df = <<>> /\ r_weights = <<>> /\ r_out = <<>>

CalcIdle == c_pc = "idle" /\ c_data = <<>> /\ c_out = <<>>

\* ------------------------------------------- calculate_metrics on its own
\* The bundles get_stock_data hands over: the handler calls
\* calculate_metrics on nothing else.
CalcInputs ==
    LET got == {get_stock_data(sym, ApplyFaults(BaseAnswer(sym), fs)) :
                   sym \in Symbols, fs \in FaultSets}
    IN  {g[1] : g \in got \ {<<>>}}

InitCalc ==
    /\ HandlerIdle /\ RankIdle
    /\ c_pc = "call"
    /\ c_data \in CalcInputs
    /\ c_out = <<>>

CalcStep ==
    /\ c_pc = "call"
    /\ c_out' = calculate_metrics(c_data)
    /\ c_pc' = "returned"
    /\ UNCHANGED <<c_data, handlerVars, rankVars>>

NextCalc == CalcStep

SpecCalc == InitCalc /\ [][NextCalc]_vars

\* ------------------------------------------------- rank_stocks on its own
RankColumns == {"ROIC", "EV_FCF"}

RankCells == {NaN, Num(1), Num(2)}

RankFrames ==
    UNION {{[i \in 1..n |-> [index |-> i - 1, code |-> i, m |-> ms[i]]] :
               ms \in [1..n -> [RankColumns -> RankCells]]} : n \in 1..MaxRows}

InitRank ==
    /\ HandlerIdle /\ CalcIdle
    /\ r_pc = "call"
    /\ r_df \in RankFrames
    /\ r_weights \in Mappings(RankColumns, GoodItems)
    /\ r_out = <<>>

RankStep ==
    /\ r_pc = "call"
    /\ r_out' = rank_stocks(r_df, r_weights)
    /\ r_pc' = "returned"
    /\ UNCHANGED <<r_df, r_weights, handlerVars, calcVars>>

NextRank == RankStep

SpecRank == InitRank /\ [][NextRank]_vars

\* ------------------------------------------------------------ the handler
(***************************************************************************)
(* A request body is unparsable ("invalid_json"), a JSON value Python      *)
(* takes as false ("falsy": null, {}, [], 0, "", false), another JSON      *)
(* value that is no object ("non_dict"), or an object ("dict") with its    *)
(* 'tickers' and 'weights' entries: absent, of the wrong type, or a list   *)
(* / a mapping.                                                            *)
(***************************************************************************)
Absent == [t |-> "absent", v |-> <<>>]

TickerLists == UNION {[1..n -> Symbols] : n \in 0..MaxTickers}

TickerFields == {Absent, [t |-> "str", v |-> <<>>]} \cup {[t |-> "list", v |-> l] : l \in TickerLists}

\* The factor names a request may give: two metric columns and a name that
\* is no column.
RequestFactors == {"ROIC", "EV_FCF", "PE"}

WeightFields ==
    {Absent, [t |-> "num", v |-> <<>>], [t |-> "dict", v |-> <<>>]}
    \cup {[t |-> "dict", v |-> w] : w \in Mappings(RequestFactors, GoodItems \cup BadItems)}

Requests ==
    {[kind |-> k, tickers |-> Absent, weights |-> Absent] :
        k \in {"invalid_json", "falsy", "non_dict"}}
    \cup {[kind |-> "dict", tickers |-> tk, weights |-> w] :
             tk \in TickerFields, w \in WeightFields}

\* The answers the provider may give for a symbol: an exception, no price
\* history, an empty statement, the symbol's data, or the data with a
\* non-numeric 'Pretax Income' or without 'enterpriseValue'.
AnswersFor(sym) ==
    {[BaseAnswer(sym) EXCEPT !.raises = TRUE],
     [BaseAnswer(sym) EXCEPT !.history_empty = TRUE],
     [BaseAnswer(sym) EXCEPT !.cashflow = EmptyTable],
     BaseAnswer(sym),
     ApplyFault(BaseAnswer(sym), [item |-> <<"financials", "Pretax Income">>, kind |-> "none"]),
     ApplyFault(BaseAnswer(sym), [item |-> <<"info", "enterpriseValue">>, kind |-> "missing"])}

ProviderAnswers == [sym \in Symbols |-> AnswersFor(sym)]

Response(status, error, message, body) ==
    [status |-> status, error |-> error, message |-> message, body |-> body]

\* An exception that reaches no handler: the request ends without a
\* response of the handler's.
Uncaught(e) == <<>>

\* except Exception as e: the responses the top-level handler sends.
CatchAll(e) == <<Response(500, "internal", e, <<>>)>>

\* request.get_json(): the parsed body, or BadRequest when the body does not
\* parse.
get_json(req) == IF req.kind = "invalid_json" THEN "BadRequest" ELSE ""

\* The first statements of the handler, to the start of the loop: the
\* responses sent, none if the request goes on to the loop.
Validate(req) ==
    IF get_json(req) # "" THEN CatchAll(get_json(req))
    ELSE IF req.kind = "falsy" THEN <<Response(400, "no_json", "", <<>>)>>
    ELSE IF req.kind = "non_dict" THEN CatchAll("AttributeError")
    ELSE IF req.tickers.t # "list" \/ req.tickers.v = <<>>
    THEN <<Response(400, "tickers", "", <<>>)>>
    ELSE IF req.weights.t # "dict" \/ DOMAIN req.weights.v = {}
    THEN <<Response(400, "weights", "", <<>>)>>
    ELSE <<>>

InitHandler ==
    /\ RankIdle /\ CalcIdle
    /\ pc = "start"
    /\ request \in Requests
    /\ pos = 0
    /\ all_metrics = <<>>
    /\ attempts = <<>>
    /\ rank_args = <<>>
    /\ response = <<>>

\* The conditions under which each part of the handler runs; past them
\* each part always completes.
AtStart == pc = "start"
InLoop == pc = "loop" /\ pos < Len(request.tickers.v)
AfterLoop == pc = "loop" /\ pos = Len(request.tickers.v)

Receive ==
    /\ AtStart
    /\ response' = Validate(request)
    /\ pc' = IF Validate(request) = <<>> /\ get_json(request) = "" /\ request.kind = "dict"
             THEN "loop" ELSE "done"
    /\ UNCHANGED <<request, pos, all_metrics, attempts, rank_args, rankVars, calcVars>>

\* A failed ticker discards what was collected before it.
CollectOrReset(collected, metrics) ==
    IF metrics # <<>> THEN Append(collected, metrics[1]) ELSE <<>>

\* if metrics: all_metrics.append(metrics)
Collect(collected, metrics) ==
    IF metrics # <<>> THEN Append(collected, metrics[1]) ELSE collected

\* One pass of the loop over tickers_to_process.
Iterate ==
    /\ InLoop
    /\ LET ticker == request.tickers.v[pos + 1]
       IN  \E ans \in ProviderAnswers[ticker] :
             LET stock_data == get_stock_data(ticker, ans)
                 metrics == IF stock_data # <<>> THEN calculate_metrics(stock_data[1])
                            ELSE <<>>
             IN  /\ all_metrics' = Collect(all_metrics, metrics)
                 /\ attempts' = Append(attempts, [ticker |-> ticker,
                                                  data |-> stock_data # <<>>,
                                                  metrics |-> metrics # <<>>])
    /\ pos' = pos + 1
    /\ UNCHANGED <<pc, request, rank_args, response, rankVars, calcVars>>

\* The test that lets rank_stocks run on anything.
NeverEmpty(collected) == FALSE

\* if not all_metrics
NoMetrics(collected) == collected = <<>>

\* pd.DataFrame(all_metrics).replace([np.inf, -np.inf], np.nan)
ToFrame(collected) ==
    [i \in 1..Len(collected) |->
        [index |-> i - 1, code |-> collected[i].code,
         m |-> [f \in DOMAIN collected[i].m |->
                   IF collected[i].m[f].t = "inf" THEN NaN ELSE collected[i].m[f]]]]

\* final_ranked_df.where(pd.notnull(final_ranked_df), None), then
\* to_dict(orient='records'): the index is dropped, nan becomes None.
ToRecords(df) ==
    [i \in 1..Len(df) |->
        [code |-> df[i].code,
         m |-> [f \in DOMAIN df[i].m |-> IF IsNaN(df[i].m[f]) THEN None ELSE df[i].m[f]],
         rank |-> df[i].rank,
         score |-> df[i].score]]

\* After the loop: the empty check, the ranking and the response.
Finish ==
    /\ AfterLoop
    /\ IF NoMetrics(all_metrics)
       THEN /\ response' = <<Response(500, "no_valid_data", "", <<>>)>>
            /\ UNCHANGED rank_args
       ELSE LET metrics_df == ToFrame(all_metrics)
                final_ranked_df == rank_stocks(metrics_df, request.weights.v)
            IN  /\ rank_args' = Append(rank_args, metrics_df)
                /\ response' = IF final_ranked_df.exc # ""
                               THEN CatchAll(final_ranked_df.exc)
                               ELSE <<Response(200, "", "", ToRecords(final_ranked_df.df))>>
    /\ pc' = "done"
    /\ UNCHANGED <<request, pos, all_metrics, attempts, rankVars, calcVars>>

Next == Receive \/ Iterate \/ Finish

Init == InitHandler

Spec == Init /\ [][Next]_vars

\* ================================================================ claims
\* ------------------------------------------------------------------- C1
\* There is no ticker limit in the handler, so the claim is stated for every
\* limit a configuration could set below the longest list of the model.
TooMany(limit) ==
    /\ request.kind = "dict"
    /\ request.tickers.t = "list"
    /\ Len(request.tickers.v) > limit

\* C1: a request with more tickers than the configured maximum is answered
\* 400, and get_stock_data is called for none of its tickers.
C1_TooManyTickersRejected ==
    \A limit \in 1..(MaxTickers - 1) :
        TooMany(limit) =>
            /\ attempts = <<>>
            /\ pc = "done" => (Len(response) = 1 /\ response[1].status = 400)

\* ------------------------------------------------------------------- C2
Malformed(req) ==
    \/ req.kind = "invalid_json"
    \/ /\ req.kind = "dict"
       /\ \/ req.tickers.t # "list" \/ req.tickers.v = <<>>
          \/ req.weights.t # "dict" \/ req.weights.v = <<>>

\* C2: a body that is not valid JSON, or whose 'tickers' is missing, not a
\* list or empty, or whose 'weights' is missing, not a mapping or empty, is
\* answered with status 400.
C2_MalformedIs400 ==
    (pc = "done" /\ Malformed(request)) =>
        (Len(response) = 1 /\ response[1].status = 400)

\* ------------------------------------------------------------------- C3
Returned == r_pc = "returned" /\ r_out.exc = ""

\* C3: for every weighted factor, in either direction, a record whose cell
\* is nan has a rank strictly greater than every record whose cell is not.
C3_UndefinedRanksWorst ==
    Returned =>
        \A f \in DOMAIN r_weights : \A i, j \in 1..Len(r_out.df) :
            (IsNaN(r_out.df[i].m[f]) /\ ~IsNaN(r_out.df[j].m[f]))
                => Less(r_out.df[j].rank[f], r_out.df[i].rank[f])

C3_Witness ==
    /\ Returned
    /\ \E f \in DOMAIN r_weights : \E i, j \in 1..Len(r_out.df) :
          /\ r_weights[f].higher_is_better
          /\ IsNaN(r_out.df[i].m[f])
          /\ ~IsNaN(r_out.df[j].m[f])

\* ------------------------------------------------------------------- C4
RECURSIVE WeightedRankSum(_, _, _)
WeightedRankSum(row, weights, todo) ==
    IF todo = {} THEN Num(0)
    ELSE LET f == CHOOSE x \in todo : TRUE
         IN  Add(Mul(row.rank[f], Num(weights[f].weight)),
                 WeightedRankSum(row, weights, todo \ {f}))

\* Each input record's score in a returned frame, by the record's code.
Scores(df) == [c \in {df[k].code : k \in 1..Len(df)} |->
                 (CHOOSE r \in {df[k] : k \in 1..Len(df)} : r.code = c).score]

WithCell(df, i, f, v) == [df EXCEPT ![i].m[f] = v]

\* C4: each returned record's score is the sum over the factors of weights
\* of rank times weight, and a column weights does not name has no effect
\* on any score.
C4_ScoreIsWeightedRankSum ==
    Returned =>
        /\ \A k \in 1..Len(r_out.df) :
              r_out.df[k].score
                  = WeightedRankSum(r_out.df[k], r_weights, DOMAIN r_weights)
        /\ \A f \in RankColumns \ DOMAIN r_weights :
              \A here \in {Scores(r_out.df)} :
                  \A i \in 1..Len(r_df) : \A v \in RankCells \ {r_df[i].m[f]} :
                      Scores(rank_stocks(WithCell(r_df, i, f, v), r_weights).df) = here

C4_Witness ==
    /\ Returned
    /\ Len(r_out.df) >= 2
    /\ \E f \in DOMAIN r_weights : r_weights[f].weight = 2
    /\ \E g \in RankColumns \ DOMAIN r_weights :
          r_out.df[1].m[g] # r_out.df[2].m[g]
    /\ r_out.df[1].score # r_out.df[2].score

\* ------------------------------------------------------------------- C5
\* C5: the returned rows are the input rows, each once, in an order of
\* non-decreasing score, and row k carries index k.
C5_SortedPermutation ==
    Returned =>
        /\ Len(r_out.df) = Len(r_df)
        /\ \A k \in 1..(Len(r_out.df) - 1) :
              ~Less(r_out.df[k + 1].score, r_out.df[k].score)
        /\ \A k \in 1..Len(r_out.df) : r_out.df[k].index = k
        /\ \A i \in 1..Len(r_df) :
              \E k \in 1..Len(r_out.df) :
                  /\ r_out.df[k].code = r_df[i].code
                  /\ r_out.df[k].m = r_df[i].m
                  /\ \A l \in 1..Len(r_out.df) : r_out.df[l].code = r_df[i].code => l = k

C5_Witness ==
    /\ Returned
    /\ Len(r_out.df) = 3
    /\ r_out.df[1].code = 3
    /\ Less(r_out.df[1].score, r_out.df[2].score)
    /\ r_out.df[2].score = r_out.df[3].score

\* ------------------------------------------------------------------- C6
Flipped(weights, f) ==
    [weights EXCEPT ![f].higher_is_better = ~weights[f].higher_is_better]

\* Each input record's rank on factor f in a returned frame, by its code.
Ranks(df, f) == [c \in {df[k].code : k \in 1..Len(df)} |->
                   (CHOOSE r \in {df[k] : k \in 1..Len(df)} : r.code = c).rank[f]]

\* C6: with the same cells, the run with the opposite higher_is_better
\* reverses the strict rank order of the records with defined cells, and
\* records with equal cells share a rank in both runs.
C6_DirectionReversesRanks ==
    Returned =>
        \A f \in DOMAIN r_weights :
            \A here \in {Ranks(r_out.df, f)} :
            \A other \in {Ranks(rank_stocks(r_df, Flipped(r_weights, f)).df, f)} :
                \A a, b \in 1..Len(r_df) :
                    (~IsNaN(r_df[a].m[f]) /\ ~IsNaN(r_df[b].m[f])) =>
                        /\ Less(here[a], here[b]) <=> Less(other[b], other[a])
                        /\ r_df[a].m[f] = r_df[b].m[f] =>
                             (here[a] = here[b] /\ other[a] = other[b])

C6_Witness ==
    /\ Returned
    /\ \E f \in DOMAIN r_weights : \E a, b, c \in 1..Len(r_df) :
          /\ a # b
          /\ r_df[a].m[f] = r_df[b].m[f]
          /\ ~IsNaN(r_df[a].m[f]) /\ ~IsNaN(r_df[c].m[f])
          /\ Less(Ranks(r_out.df, f)[a], Ranks(r_out.df, f)[c])

\* ------------------------------------------------------------------- C7
\* A request of the documented shape: it passes the handler's checks, and
\* every item of weights names a metric column and has both fields.
WellFormed(req) ==
    /\ req.kind = "dict"
    /\ req.tickers.t = "list" /\ req.tickers.v # <<>>
    /\ req.weights.t = "dict" /\ req.weights.v # <<>>
    /\ \A f \in DOMAIN req.weights.v :
          /\ f \in Factors
          /\ DOMAIN req.weights.v[f] = {"weight", "higher_is_better"}

Succeeded(sym) ==
    {k \in 1..Len(attempts) :
        attempts[k].ticker = sym /\ attempts[k].data /\ attempts[k].metrics}

\* C7: for a well-formed request, every ticker is attempted whatever
\* happened to the ones before it, and when at least one yields a record the
\* response is 200 with one record per ticker occurrence that yielded one,
\* and no other.
C7_FailedTickersSkipped ==
    (pc = "done" /\ WellFormed(request)) =>
        /\ [k \in 1..Len(attempts) |-> attempts[k].ticker] = request.tickers.v
        /\ (\E sym \in Symbols : Succeeded(sym) # {}) =>
              /\ Len(response) = 1
              /\ response[1].status = 200
              /\ \A sym \in Symbols :
                    Cardinality({i \in 1..Len(response[1].body) :
                                    response[1].body[i].code = sym})
                        = Cardinality(Succeeded(sym))

C7_Witness ==
    /\ pc = "done" /\ WellFormed(request)
    /\ Len(attempts) = 2
    /\ ~attempts[1].metrics
    /\ attempts[2].metrics
    /\ response[1].status = 200
    /\ Len(response[1].body) = 1

\* ------------------------------------------------------------------- C8
PassedValidation ==
    /\ request.kind = "dict"
    /\ request.tickers.t = "list" /\ request.tickers.v # <<>>
    /\ request.weights.t = "dict" /\ request.weights.v # <<>>

NoValidData ==
    /\ response # <<>>
    /\ response[1].status = 500
    /\ response[1].error = "no_valid_data"

\* C8: for a request that passes validation, the 'no valid data' 500 is the
\* response exactly when no ticker yielded a record, it is sent only after
\* every ticker was attempted, and rank_stocks is never called on an empty
\* collection.
C8_NoValidDataIffNoRecord ==
    PassedValidation =>
        /\ pc = "done" => (NoValidData <=> \A k \in 1..Len(attempts) : ~attempts[k].metrics)
        /\ NoValidData => Len(attempts) = Len(request.tickers.v)
        /\ \A k \in 1..Len(rank_args) : rank_args[k] # <<>>

C8_Witness ==
    /\ PassedValidation
    /\ pc = "done"
    /\ NoValidData
    /\ Len(attempts) = 2
    /\ attempts[1].data /\ ~attempts[1].metrics
    /\ ~attempts[2].data

\* ------------------------------------------------------------------- C9
\* C9: a request that has not been answered has a part of the handler still
\* to run, and a finished
\* request has exactly one response, with status 200, 400 or 500; an
\* exception on the request path gives a 500 that carries an error and a
\* message.
C9_AlwaysOneStructuredResponse ==
    /\ pc # "done" => (response = <<>> /\ (AtStart \/ InLoop \/ AfterLoop))
    /\ pc = "done" =>
          /\ Len(response) = 1
          /\ response[1].status \in {200, 400, 500}
          /\ (PassedValidation /\ rank_args # <<>>
                /\ rank_stocks(rank_args[1], request.weights.v).exc # "") =>
                    /\ response[1].status = 500
                    /\ response[1].error # ""
                    /\ response[1].message # ""

C9_Witness ==
    /\ pc = "done"
    /\ PassedValidation
    /\ "PE" \in DOMAIN request.weights.v
    /\ rank_args # <<>>
    /\ response[1].status = 500
    /\ response[1].message = "KeyError"

\* ------------------------------------------------------------------ C10
\* C10: when the computation of one factor fails, calculate_metrics still
\* returns a record, that factor is nan in it, and every factor whose own
\* computation did not fail has the value that computation gives.
C10_FactorFailureIsIsolated ==
    c_pc = "returned" =>
        \A f \in Factors :
            IsExc(FactorBody(f, c_data)) =>
                /\ c_out # <<>>
                /\ c_out[1].m[f] = NaN
                /\ \A g \in Factors \ {f} :
                      ~IsExc(FactorBody(g, c_data)) => c_out[1].m[g] = FactorBody(g, c_data)

=============================================================================
